---- MODULE Spec2Model ----
(***************************************************************************)
(* Hydrocarbon column height Monte Carlo simulation                        *)
(* (src/hydrocarbon_simulator.py).                                         *)
(*                                                                         *)
(* Numbers.  The program computes with Python floats; the model computes   *)
(* on integer grids and rounds a quotient down to the grid:                *)
(*   interfacial tension   0.01 N/m      pore throat radius   10 nm        *)
(*   densities             kg/m^3        pressures            bar          *)
(*   heights               m             percentiles, mean    0.01 m       *)
(* Signs, zero divisors and the order of values are those of the exact     *)
(* quotient.  The random source is a small deterministic generator whose   *)
(* state is advanced once per draw, as numpy's global RandomState is.      *)
(***************************************************************************)
EXTENDS Integers, Sequences, FiniteSets, TLC

\* ------------------------------------------------------------------ bounds
\* the Number of Simulations widget offers 1000..50000; the model runs
\* 1..MaxSims iterations
MaxSims == 3
\* number of states of the random source
RngModulus == 8

\* ------------------------------------------------------- program constants
\* 9.81, in hundredths
G981 == 981
\* bar -> Pa, * 1e5
BarToPa == 100000
\* 2 * tau / (drho * 9.81 * r): tau in 0.01 N/m, r in 1e-8 m (the * 1e-9 of the
\* nm -> m conversion on a 10 nm grid), 9.81 = 981 / 100:
\*   (tau / 100) / ((981 / 100) * r * 1e-8) = tau * 1e8 / (981 * r)
CapScale == 100000000
\* 9.81 = 981 / GScale
GScale == 100
\* percentile rank of the marker labelled "P10"
UpperRank == 90
\* percentile rank of the marker labelled "P90"
LowerRank == 10

\* ------------------------------------------------------------ form inputs
\* triangular_input returns (min, mode, max); uniform_input returns (min, max).
\* The form is whatever the user typed: no widget orders min, mode and max.
\* A behaviour keeps one form; between runs only the seed is edited.
ReservoirPressureRanges == { <<760, 770, 780>> }
FracturePressureRanges ==
    { <<795, 806, 820>>,      \* the default
      <<700, 710, 720>>,      \* entirely below the reservoir pressure
      <<760, 770, 780>>,      \* the reservoir pressure's own range
      <<700, 700, 700>>,      \* min = mode = max, below the reservoir pressure
      <<820, 806, 795>> }     \* min > max
WaterDensityRanges ==
    { <<1035, 1035>>,         \* the default, 1.035 g/cm3 * 1000
      <<327, 327>>,           \* equal to the hydrocarbon density
      <<200, 300>>,           \* below the hydrocarbon density
      <<1035, 900>> }         \* min > max
HydrocarbonDensityRanges == { <<327, 327>> }
InterfacialTensionRanges == { <<3, 4, 5>>, <<0, 0, 1>>, <<4, 4, 4>> }
PoreThroatRadiusRanges == { <<1, 2, 3>> }
ContactAngles == { 0, 180 }
NumSimulations == 1..MaxSims
Seeds == { 6, 42 }

VARIABLES
    reservoir_pressure_range, fracture_pressure_range, water_density_range,
    hydrocarbon_density_range, contact_angle_degrees_range,
    interfacial_tension_range, pore_throat_radius_range,
    num_simulations, seed_value,
    rng,                  \* state of numpy's global random source
    pc,                   \* "idle", "loop", "done", "error"
    exception,            \* "none", "ValueError", "ZeroDivisionError"
    i,                    \* iterations of the for loop completed
    max_heights, limiting_factors,
    interfacial_tensions, contact_angles, water_densities,
    hydrocarbon_densities, pore_throat_radii, fracture_pressures,
    reservoir_pressures,
    p10, mean, p90,
    draw_log,             \* history: the draws of this run, <<iteration, quantity>>
    prev                  \* history: the last finished run that was followed by a rerun

form == << reservoir_pressure_range, fracture_pressure_range, water_density_range,
           hydrocarbon_density_range, contact_angle_degrees_range,
           interfacial_tension_range, pore_throat_radius_range, num_simulations >>
inputs == << interfacial_tensions, contact_angles, water_densities,
             hydrocarbon_densities, pore_throat_radii, fracture_pressures,
             reservoir_pressures >>
stats == << p10, mean, p90 >>
vars == << form, seed_value, rng, pc, exception, i, max_heights, limiting_factors,
           inputs, stats, draw_log, prev >>

\* ---------------------------------------------------------- random source
\* np.random.seed(seed_value), for the seeds it accepts (0 .. 2^32 - 1)
SeedKeepsState(state, seed) == state
Seed(state, seed) == seed % RngModulus

\* one step of the generator
NextState(state) == (5 * state + 3) % RngModulus
\* the double in [0, 1) a state yields is Output(state) / RngOutputs
RngOutputs == (RngModulus + 1) \div 2
Output(state) == state \div 2

Isqrt(n) == CHOOSE r \in 0..n : r * r <= n /\ (r + 1) * (r + 1) > n

\* np.random.triangular(left, mode, right) checks its arguments before drawing
TriangularRaises(t) == t[1] > t[2] \/ t[2] > t[3] \/ t[1] = t[3]

\* the draw of np.random.triangular from the double u / RngOutputs
random_triangular(u, left, mode, right) ==
    LET base == right - left
        leftbase == mode - left
        leftprod == leftbase * base
        rightprod == (right - mode) * base
    IN  IF u * base <= leftbase * RngOutputs
        THEN left + Isqrt((u * leftprod) \div RngOutputs)
        ELSE right - Isqrt(((RngOutputs - u) * rightprod) \div RngOutputs)

\* np.random.uniform(low, high): low + (high - low) * double, no check of low <= high
random_uniform(u, low, high) == low + ((high - low) * u) \div RngOutputs

\* ------------------------------------------------------------ the sampler
DrawOrderSwapped ==
    << "water_density", "interfacial_tension", "hydrocarbon_density",
       "pore_throat_radius", "fracture_pressure", "reservoir_pressure" >>
\* the order of the draws in the loop body
DrawOrder ==
    << "interfacial_tension", "water_density", "hydrocarbon_density",
       "pore_throat_radius", "fracture_pressure", "reservoir_pressure" >>

Quantities == { DrawOrder[k] : k \in 1..Len(DrawOrder) }

IsTriangular(q) ==
    q \in { "interfacial_tension", "pore_throat_radius", "fracture_pressure",
            "reservoir_pressure" }

RangeOf(q) ==
    CASE q = "interfacial_tension" -> interfacial_tension_range
      [] q = "water_density" -> water_density_range
      [] q = "hydrocarbon_density" -> hydrocarbon_density_range
      [] q = "pore_throat_radius" -> pore_throat_radius_range
      [] q = "fracture_pressure" -> fracture_pressure_range
      [] q = "reservoir_pressure" -> reservoir_pressure_range

\* one draw: d is the sampler's record after the draws before it
DrawOne(d, q) ==
    LET r == RangeOf(q)
        s == NextState(d.rng)
    IN  IF IsTriangular(q) /\ TriangularRaises(r)
        THEN [d EXCEPT !.raised = TRUE]
        ELSE [ raised |-> FALSE,
               rng |-> s,
               log |-> Append(d.log, q),
               value |-> [d.value EXCEPT ![q] =
                            IF IsTriangular(q)
                            THEN random_triangular(Output(s), r[1], r[2], r[3])
                            ELSE random_uniform(Output(s), r[1], r[2])] ]

RECURSIVE DrawFrom(_, _)
DrawFrom(k, d) ==
    IF k > Len(DrawOrder) \/ d.raised
    THEN d
    ELSE DrawFrom(k + 1, DrawOne(d, DrawOrder[k]))

\* the six draws of one iteration, from the source state `state`
DrawRealization(state) ==
    DrawFrom(1, [ raised |-> FALSE, rng |-> state, log |-> << >>,
                  value |-> [q \in Quantities |-> 0] ])

\* --------------------------------------------------------- physical model
\* math.cos(math.radians(deg)) at the angles of ContactAngles
Cos(deg) == CASE deg = 0 -> 1 [] deg = 180 -> -1

CapillaryDivisor(water_density, hydrocarbon_density, pore_throat_radius) ==
    (water_density - hydrocarbon_density) * G981 * pore_throat_radius

calculate_capillary_limited_height(interfacial_tension, contact_angle_degrees, water_density, hydrocarbon_density, pore_throat_radius) ==
    (2 * interfacial_tension * Cos(contact_angle_degrees) * CapScale)
        \div CapillaryDivisor(water_density, hydrocarbon_density, pore_throat_radius)

FractureDivisor(water_density, hydrocarbon_density) ==
    (water_density - hydrocarbon_density) * G981

FractureHeightClamped(fracture_pressure, reservoir_pressure, water_density, hydrocarbon_density) ==
    LET max_buoyancy_pressure == fracture_pressure * BarToPa - reservoir_pressure * BarToPa
        h == (max_buoyancy_pressure * GScale)
                 \div FractureDivisor(water_density, hydrocarbon_density)
    IN  IF h < 0 THEN 0 ELSE h
calculate_fracture_pressure_limited_height(fracture_pressure, reservoir_pressure, water_density, hydrocarbon_density) ==
    LET fracture_pressure_pa == fracture_pressure * BarToPa
        reservoir_pressure_pa == reservoir_pressure * BarToPa
        max_buoyancy_pressure == fracture_pressure_pa - reservoir_pressure_pa
    IN  (max_buoyancy_pressure * GScale)
            \div FractureDivisor(water_density, hydrocarbon_density)

\* a float division by zero raises ZeroDivisionError
ZeroDivision(v) ==
    \/ CapillaryDivisor(v["water_density"], v["hydrocarbon_density"],
                        v["pore_throat_radius"]) = 0
    \/ FractureDivisor(v["water_density"], v["hydrocarbon_density"]) = 0

\* Python's min(a, b): b when b < a, else a
PyMax(a, b) == IF b > a THEN b ELSE a
PyMin(a, b) == IF b < a THEN b ELSE a

\* the test of the if statement that updates limiting_factors
CapillaryOrTie(capillary_height, fracture_height) == capillary_height <= fracture_height
CapillaryBinds(capillary_height, fracture_height) == capillary_height < fracture_height

\* max_heights.append(max_height)
AppendUnlessNegative(heights, max_height) ==
    IF max_height < 0 THEN heights ELSE Append(heights, max_height)
AppendMaxHeight(heights, max_height) == Append(heights, max_height)

\* ------------------------------------------------------------- statistics
\* np.percentile(a, q), linear interpolation between the two nearest ranks;
\* the result is in hundredths
Percentile(a, q) ==
    LET n == Len(a)
        sorted == SortSeq(a, LAMBDA x, y : x < y)
        pos == q * (n - 1)
        j == pos \div 100
        t == pos % 100
        lo == sorted[j + 1]
        hi == sorted[IF j + 2 <= n THEN j + 2 ELSE n]
    IN  IF t >= 50
        THEN 100 * hi - (hi - lo) * (100 - t)
        ELSE 100 * lo + (hi - lo) * t

RECURSIVE Sum(_)
Sum(a) == IF a = << >> THEN 0 ELSE Head(a) + Sum(Tail(a))

\* np.mean(a), in hundredths
Mean(a) == (100 * Sum(a)) \div Len(a)

P10Swapped(heights) == Percentile(heights, LowerRank)
\* p10 = np.percentile(max_heights, 90)
P10Value(heights) == Percentile(heights, UpperRank)
\* p90 = np.percentile(max_heights, 10)
P90Value(heights) == Percentile(heights, LowerRank)

\* the labels of the three markers of the histogram
HistogramMarkers == [ P10 |-> p10, Mean |-> mean, P90 |-> p90 ]

\* what a finished run hands to the charts
Bundle ==
    [ max_heights |-> max_heights,
      limiting_factors |-> limiting_factors,
      interfacial_tensions |-> interfacial_tensions,
      contact_angles |-> contact_angles,
      water_densities |-> water_densities,
      hydrocarbon_densities |-> hydrocarbon_densities,
      pore_throat_radii |-> pore_throat_radii,
      fracture_pressures |-> fracture_pressures,
      reservoir_pressures |-> reservoir_pressures,
      p10 |-> p10, mean |-> mean, p90 |-> p90 ]

NoRun == [ ran |-> FALSE ]

\* ------------------------------------------------------------------- state
NoTally == [k \in {"Capillary pressure", "Fracture pressure"} |-> 0]

Init ==
    /\ reservoir_pressure_range \in ReservoirPressureRanges
    /\ fracture_pressure_range \in FracturePressureRanges
    /\ water_density_range \in WaterDensityRanges
    /\ hydrocarbon_density_range \in HydrocarbonDensityRanges
    /\ contact_angle_degrees_range \in ContactAngles
    /\ interfacial_tension_range \in InterfacialTensionRanges
    /\ pore_throat_radius_range \in PoreThroatRadiusRanges
    /\ num_simulations \in NumSimulations
    /\ seed_value \in Seeds
    /\ rng \in 0..(RngModulus - 1)      \* not yet seeded by the program
    /\ pc = "idle"
    /\ exception = "none"
    /\ i = 0
    /\ max_heights = << >>
    /\ limiting_factors = NoTally
    /\ interfacial_tensions = << >>
    /\ contact_angles = << >>
    /\ water_densities = << >>
    /\ hydrocarbon_densities = << >>
    /\ pore_throat_radii = << >>
    /\ fracture_pressures = << >>
    /\ reservoir_pressures = << >>
    /\ p10 = 0 /\ mean = 0 /\ p90 = 0
    /\ draw_log = << >>
    /\ prev = NoRun

\* the results of the script run before are gone when the script runs again
Cleared ==
    /\ i' = 0
    /\ max_heights' = << >>
    /\ limiting_factors' = NoTally
    /\ interfacial_tensions' = << >>
    /\ contact_angles' = << >>
    /\ water_densities' = << >>
    /\ hydrocarbon_densities' = << >>
    /\ pore_throat_radii' = << >>
    /\ fracture_pressures' = << >>
    /\ reservoir_pressures' = << >>
    /\ p10' = 0 /\ mean' = 0 /\ p90' = 0
    /\ draw_log' = << >>
    /\ exception' = "none"

\* ----------------------------------------------------------------- actions
\* the Seed widget is edited: the script reruns with the button not pressed
EditSeed ==
    /\ pc \in {"idle", "done", "error"}
    /\ \E s \in Seeds \ {seed_value} : seed_value' = s
    /\ pc' = "idle"
    /\ Cleared
    /\ UNCHANGED << form, rng, prev >>

\* the Run Simulation button: seed the source, empty the lists, enter the loop
RunSimulation ==
    /\ pc \in {"idle", "done", "error"}
    /\ rng' = Seed(rng, seed_value)
    /\ Cleared
    /\ pc' = "loop"
    /\ prev' = IF pc = "done"
               THEN [ ran |-> TRUE, seed |-> seed_value, bundle |-> Bundle ]
               ELSE prev
    /\ UNCHANGED << form, seed_value >>

\* one iteration of the for loop
LoopBody ==
    /\ pc = "loop"
    /\ i < num_simulations
    /\ LET d == DrawRealization(rng)
           v == d.value
       IN  /\ ~d.raised
           /\ ~ZeroDivision(v)
           /\ LET capillary_height ==
                      calculate_capillary_limited_height(
                          v["interfacial_tension"], contact_angle_degrees_range,
                          v["water_density"], v["hydrocarbon_density"],
                          v["pore_throat_radius"])
                  fracture_height ==
                      calculate_fracture_pressure_limited_height(
                          v["fracture_pressure"], v["reservoir_pressure"],
                          v["water_density"], v["hydrocarbon_density"])
                  max_height == PyMin(capillary_height, fracture_height)
              IN  /\ rng' = d.rng
                  /\ draw_log' = draw_log \o [k \in 1..Len(d.log) |-> << i, d.log[k] >>]
                  /\ interfacial_tensions' =
                         Append(interfacial_tensions, v["interfacial_tension"])
                  /\ contact_angles' = Append(contact_angles, contact_angle_degrees_range)
                  /\ water_densities' = Append(water_densities, v["water_density"])
                  /\ hydrocarbon_densities' =
                         Append(hydrocarbon_densities, v["hydrocarbon_density"])
                  /\ pore_throat_radii' = Append(pore_throat_radii, v["pore_throat_radius"])
                  /\ fracture_pressures' = Append(fracture_pressures, v["fracture_pressure"])
                  /\ reservoir_pressures' =
                         Append(reservoir_pressures, v["reservoir_pressure"])
                  /\ max_heights' = AppendMaxHeight(max_heights, max_height)
                  /\ limiting_factors' =
                         IF CapillaryBinds(capillary_height, fracture_height)
                         THEN [limiting_factors EXCEPT !["Capillary pressure"] = @ + 1]
                         ELSE [limiting_factors EXCEPT !["Fracture pressure"] = @ + 1]
    /\ i' = i + 1
    /\ UNCHANGED << form, seed_value, pc, exception, stats, prev >>

\* an iteration in which np.random.triangular raises ValueError: the draws before
\* it have been taken, nothing has been appended
LoopValueError ==
    /\ pc = "loop"
    /\ i < num_simulations
    /\ LET d == DrawRealization(rng)
       IN  /\ d.raised
           /\ rng' = d.rng
           /\ draw_log' = draw_log \o [k \in 1..Len(d.log) |-> << i, d.log[k] >>]
    /\ pc' = "error"
    /\ exception' = "ValueError"
    /\ UNCHANGED << form, seed_value, i, max_heights, limiting_factors, inputs, stats,
                    prev >>

\* an iteration in which a height function divides by zero: the seven input
\* traces have their value, max_heights and the tally do not
LoopZeroDivisionError ==
    /\ pc = "loop"
    /\ i < num_simulations
    /\ LET d == DrawRealization(rng)
           v == d.value
       IN  /\ ~d.raised
           /\ ZeroDivision(v)
           /\ rng' = d.rng
           /\ draw_log' = draw_log \o [k \in 1..Len(d.log) |-> << i, d.log[k] >>]
           /\ interfacial_tensions' =
                  Append(interfacial_tensions, v["interfacial_tension"])
           /\ contact_angles' = Append(contact_angles, contact_angle_degrees_range)
           /\ water_densities' = Append(water_densities, v["water_density"])
           /\ hydrocarbon_densities' =
                  Append(hydrocarbon_densities, v["hydrocarbon_density"])
           /\ pore_throat_radii' = Append(pore_throat_radii, v["pore_throat_radius"])
           /\ fracture_pressures' = Append(fracture_pressures, v["fracture_pressure"])
           /\ reservoir_pressures' = Append(reservoir_pressures, v["reservoir_pressure"])
    /\ pc' = "error"
    /\ exception' = "ZeroDivisionError"
    /\ UNCHANGED << form, seed_value, i, max_heights, limiting_factors, stats, prev >>

\* after the loop: the three statistics
Finish ==
    /\ pc = "loop"
    /\ i = num_simulations
    /\ p10' = P10Value(max_heights)
    /\ mean' = Mean(max_heights)
    /\ p90' = P90Value(max_heights)
    /\ pc' = "done"
    /\ UNCHANGED << form, seed_value, rng, exception, i, max_heights, limiting_factors,
                    inputs, draw_log, prev >>

Next ==
    \/ EditSeed
    \/ RunSimulation
    \/ LoopBody
    \/ LoopValueError
    \/ LoopZeroDivisionError
    \/ Finish

Spec == Init /\ [][Next]_vars

\* ------------------------------------------------- the realizations so far
\* the realizations whose max_height has been appended
Completed == 1..Len(max_heights)

CapAt(k) ==
    calculate_capillary_limited_height(
        interfacial_tensions[k], contact_angles[k], water_densities[k],
        hydrocarbon_densities[k], pore_throat_radii[k])

FracAt(k) ==
    calculate_fracture_pressure_limited_height(
        fracture_pressures[k], reservoir_pressures[k], water_densities[k],
        hydrocarbon_densities[k])

TraceOf(q) ==
    CASE q = "interfacial_tension" -> interfacial_tensions
      [] q = "water_density" -> water_densities
      [] q = "hydrocarbon_density" -> hydrocarbon_densities
      [] q = "pore_throat_radius" -> pore_throat_radii
      [] q = "fracture_pressure" -> fracture_pressures
      [] q = "reservoir_pressure" -> reservoir_pressures

AllTraces ==
    { max_heights, interfacial_tensions, contact_angles, water_densities,
      hydrocarbon_densities, pore_throat_radii, fracture_pressures,
      reservoir_pressures }

Tally == limiting_factors["Capillary pressure"] + limiting_factors["Fracture pressure"]

\* ------------------------------------------------------------------ claims

\* C1: for every realization index k of a run, max_heights[k] is the smaller of
\* the capillary height and the fracture height computed from the inputs
\* recorded at that same index k.
C1_MaxHeightIsMin ==
    \A k \in Completed :
        max_heights[k] = IF CapAt(k) <= FracAt(k) THEN CapAt(k) ELSE FracAt(k)

\* a finished run in which each of the two limits is the smaller one somewhere
C1_Witness ==
    /\ pc = "done"
    /\ \E k \in Completed : CapAt(k) < FracAt(k) /\ max_heights[k] = CapAt(k)
    /\ \E k \in Completed : FracAt(k) < CapAt(k) /\ max_heights[k] = FracAt(k)

\* C2: the tally partitions the realizations: the Capillary counter counts the
\* realizations with capillary height strictly below fracture height, the
\* Fracture counter all others (ties included); after k completed iterations the
\* counters sum to k, and to num_simulations at the end of the run.
C2_TallyPartitions ==
    /\ limiting_factors["Capillary pressure"] =
           Cardinality({ k \in Completed : CapAt(k) < FracAt(k) })
    /\ limiting_factors["Fracture pressure"] =
           Cardinality({ k \in Completed : CapAt(k) >= FracAt(k) })
    /\ pc \in {"loop", "done"} => Tally = i
    /\ pc = "done" => Tally = num_simulations

\* a finished run with a tie counted as Fracture and a Capillary realization
C2_Witness ==
    /\ pc = "done"
    /\ \E k \in Completed : CapAt(k) = FracAt(k)
    /\ limiting_factors["Capillary pressure"] >= 1
    /\ limiting_factors["Fracture pressure"] >= 1

\* C3: a run that finishes with the seed (and the form) of an earlier finished
\* run produces the same bundle: max_heights, every input trace, the tally and
\* the statistics are equal.
C3_Deterministic ==
    (pc = "done" /\ prev.ran /\ prev.seed = seed_value) => Bundle = prev.bundle

\* a second finished run on the seed of an earlier one, with another seed's
\* run in between
C3_Witness ==
    /\ pc = "done"
    /\ prev.ran
    /\ prev.seed = seed_value
    /\ Len(max_heights) >= 2
    /\ Bundle = prev.bundle

\* C4 (as claimed): with a malformed range in the form (triangular or uniform
\* min > max, triangular mode outside [min, max]) or a sample count below 1, no
\* draw is taken, no trace receives a value and no tally counter changes.
MalformedTriangular(t) == t[1] > t[3] \/ t[2] < t[1] \/ t[2] > t[3]
MalformedUniform(u) == u[1] > u[2]
ConfigurationError ==
    \/ \E q \in Quantities :
           IF IsTriangular(q) THEN MalformedTriangular(RangeOf(q))
                              ELSE MalformedUniform(RangeOf(q))
    \/ num_simulations < 1
C4_RejectedBeforeSampling ==
    ConfigurationError =>
        /\ draw_log = << >>
        /\ \A t \in AllTraces : t = << >>
        /\ limiting_factors = NoTally

\* C5: while the loop runs and when it has finished, max_heights and the seven
\* input traces all have length i, the number of completed iterations; in the
\* finished run that length is num_simulations.
C5_TraceLengths ==
    /\ pc \in {"loop", "done"} => \A t \in AllTraces : Len(t) = i
    /\ pc = "done" => Len(max_heights) = num_simulations

\* a finished run of several iterations, one of them with a negative height
C5_Witness ==
    /\ pc = "done"
    /\ i >= 2
    /\ \E k \in Completed : max_heights[k] < 0

\* C6 (as claimed): every value drawn from Triangular(a, a, a) and from
\* Uniform(a, a) is a, and a run whose triangular ranges all satisfy
\* min <= mode <= max is not aborted by the sampler.
C6_DegenerateDrawsPointMass ==
    /\ \A q \in Quantities :
           LET r == RangeOf(q)
           IN  (r[1] = r[Len(r)] /\ (IsTriangular(q) => r[2] = r[1])) =>
                   \A k \in 1..Len(TraceOf(q)) : TraceOf(q)[k] = r[1]
    /\ (\A q \in Quantities : IsTriangular(q) => ~MalformedTriangular(RangeOf(q)))
           => exception # "ValueError"

\* C7: with the fracture pressure range entirely below the reservoir pressure
\* range, every realization with water density above hydrocarbon density and a
\* positive capillary height has a negative fracture height that is its
\* max_height; when all realizations are such, the Capillary counter is 0 and
\* the Fracture counter counts them all.
FractureBelowReservoir ==
    /\ fracture_pressure_range[1] <= fracture_pressure_range[3]
    /\ reservoir_pressure_range[1] <= reservoir_pressure_range[3]
    /\ fracture_pressure_range[3] < reservoir_pressure_range[1]
PhysicalAt(k) == water_densities[k] > hydrocarbon_densities[k] /\ CapAt(k) > 0
C7_FractureBindsWhenBelow ==
    FractureBelowReservoir =>
        /\ \A k \in Completed :
               PhysicalAt(k) => (FracAt(k) < 0 /\ max_heights[k] = FracAt(k))
        /\ (\A k \in Completed : PhysicalAt(k)) =>
               /\ limiting_factors["Capillary pressure"] = 0
               /\ limiting_factors["Fracture pressure"] = Len(max_heights)

\* a finished run of several such realizations
C7_Witness ==
    /\ pc = "done"
    /\ FractureBelowReservoir
    /\ i >= 2
    /\ \A k \in Completed : PhysicalAt(k)
    /\ limiting_factors["Fracture pressure"] = i

\* C8 (as claimed): no numerical anomaly of a realization aborts the run: a
\* draw with water density at or below hydrocarbon density does not raise, its
\* height goes unclamped into max_heights at its index, and the loop goes on.
C8_AnomaliesFlowThrough ==
    /\ exception # "ZeroDivisionError"
    /\ \A k \in 1..Len(water_densities) :
           water_densities[k] <= hydrocarbon_densities[k] => k \in Completed

\* C9: the marker labelled P10 is the 90th raw percentile of max_heights, the
\* marker labelled P90 the 10th, and P10 >= P90.
C9_PercentileLabels ==
    pc = "done" =>
        /\ HistogramMarkers.P10 = Percentile(max_heights, 90)
        /\ HistogramMarkers.P90 = Percentile(max_heights, 10)
        /\ HistogramMarkers.P10 >= HistogramMarkers.P90

\* a finished run whose max_heights are not all equal
C9_Witness ==
    /\ pc = "done"
    /\ \E k, l \in Completed : max_heights[k] # max_heights[l]
    /\ HistogramMarkers.P10 > HistogramMarkers.P90

\* C10: the draws of a run are, iteration after iteration, interfacial_tension,
\* water_density, hydrocarbon_density, pore_throat_radius, fracture_pressure,
\* reservoir_pressure, one each; the source has advanced once per logged draw
\* and not otherwise; the contact angle trace holds the configured angle.
ClaimedOrder ==
    << "interfacial_tension", "water_density", "hydrocarbon_density",
       "pore_throat_radius", "fracture_pressure", "reservoir_pressure" >>
RECURSIVE Advanced(_, _)
Advanced(state, n) == IF n = 0 THEN state ELSE Advanced(NextState(state), n - 1)
C10_DrawOrder ==
    /\ \A j \in 1..Len(draw_log) :
           draw_log[j] = << (j - 1) \div 6, ClaimedOrder[((j - 1) % 6) + 1] >>
    /\ pc \in {"loop", "done"} => Len(draw_log) = 6 * i
    /\ pc \in {"loop", "done", "error"} =>
           rng = Advanced(seed_value % RngModulus, Len(draw_log))
    /\ \A k \in 1..Len(contact_angles) : contact_angles[k] = contact_angle_degrees_range

\* a finished run of several iterations
C10_Witness ==
    /\ pc = "done"
    /\ i >= 2
    /\ Len(draw_log) = 6 * i
====
